---- MODULE Spec2Model ----
(***************************************************************************)
(* Attendance API (src/main.py): employee registration / listing / soft    *)
(* deletion, attendance marking against a geofence, daily roster and       *)
(* per-employee summary, over a document store with two collections.       *)
(*                                                                         *)
(* Representation of Python values:                                        *)
(*   - Optional[T]: None is <<>>, a value v is <<v>>.                      *)
(*   - text (str): a sequence of character codes (ASCII).                  *)
(*   - an identifier string: [form, hex]; form "lower" / "upper" is a      *)
(*     24-digit hexadecimal string written in that letter case, hex the    *)
(*     12-byte value it denotes; form "malformed" is any other string.     *)
(*   - a coordinate: an integer number of 1e-4 degrees.                    *)
(*   - a distance: metres, rounded up to a whole metre (for a whole-metre  *)
(*     radius r, d <= r holds of the float iff it holds of the rounded d). *)
(*   - a timestamp: the value of a clock that every store write advances.  *)
(***************************************************************************)
EXTENDS Integers, Sequences, FiniteSets, Bags, TLC

VARIABLES
    OFFICE_LAT,   \* main.py:53, read once at import
    OFFICE_LNG,   \* main.py:54
    GEOFENCE_M,   \* main.py:55
    employee,     \* collection "employee": documents in insertion order
    attendance,   \* collection "attendance": documents in insertion order
    inflight,     \* mark_attendance requests between find_one and create_document
    now,          \* datetime.utcnow()
    today,        \* date.today()
    resp          \* what the step just taken returned to its caller

vars == <<OFFICE_LAT, OFFICE_LNG, GEOFENCE_M, employee, attendance, inflight, now, today, resp>>

\* ---------------------------------------------------------------- bounds

\* Store writes (inserts and updates) in one run.
MaxClock == 4
\* Midnights that pass in one run.
MaxDays == 1
\* mark_attendance requests that are between their two store calls at once.
MaxInflight == 2

\* ---------------------------------------------------------------- values

None == <<>>
Some(v) == <<v>>
\* Python truthiness of an Optional[str]: None and "" are falsy.
Truthy(o) == o # None /\ o[1] # <<>>

Reverse(s) == [i \in 1..Len(s) |-> s[Len(s) + 1 - i]]

\* ---------------------------------------------------------------- text

\* Lower-casing of one character code ('A'..'Z' -> 'a'..'z').
LowerChar(c) == IF c >= 65 /\ c <= 90 THEN c + 32 ELSE c

\* {"$regex": q, "$options": "i"} for a q without regex metacharacters:
\* q occurs in t, letter case ignored.
RegexMatchI(t, q) ==
    \E i \in 0..(Len(t) - Len(q)) :
        \A j \in 1..Len(q) : LowerChar(t[i + j]) = LowerChar(q[j])

\* The store's order on strings ($gte / $lte), and Python's: by the first
\* character that differs, a proper prefix first.
StrLeq(a, b) ==
    LET differ == {i \in 1..Len(a) : i <= Len(b) /\ a[i] # b[i]}
    IN  IF differ = {} THEN Len(a) <= Len(b)
        ELSE LET first == CHOOSE i \in differ : \A j \in differ : i <= j
             IN  a[first] < b[first]

Digit(n) == 48 + n
Dash == <<45>>
Pad2(n) == <<Digit(n \div 10), Digit(n % 10)>>
Pad4(n) == <<Digit(n \div 1000), Digit((n \div 100) % 10), Digit((n \div 10) % 10), Digit(n % 10)>>
\* datetime.date.isoformat(): "YYYY-MM-DD", zero padded.
isoformat(d) == Pad4(d.year) \o Dash \o Pad2(d.month) \o Dash \o Pad2(d.day)

FirstDay == [year |-> 2024, month |-> 1, day |-> 9]
Days == {[FirstDay EXCEPT !.day = FirstDay.day + k] : k \in 0..MaxDays}

\* ---------------------------------------------------------------- identifiers

InvalidId == 0
IdStr(form, hex) == [form |-> form, hex |-> hex]
MalformedId == IdStr("malformed", 0)
\* bson.ObjectId(s): the 12-byte value of a 24-digit hexadecimal string of
\* either letter case; InvalidId (raised) for any other string.
ObjectId(s) == IF s.form \in {"lower", "upper"} THEN s.hex ELSE InvalidId
\* str(ObjectId): lower-case hexadecimal.
str(oid) == IdStr("lower", oid)

\* ---------------------------------------------------------------- geofence

\* The positions the model draws from, <<latitude, longitude>> in 1e-4
\* degrees: the spec's office (12.9716, 77.5946), a point 0.001 degree north
\* of it, (13.0000, 77.6000), and (0, 0).
PosOffice == <<129716, 775946>>
PosNear == <<129726, 775946>>
PosFar == <<130000, 776000>>
PosZero == <<0, 0>>

\* haversine_m on those coordinates: the values main.py:59-65 computes,
\* rounded up to a whole metre (0.0, 111.19..., 3211.68..., 1442376.11..., ...).
haversine_m(lat1, lon1, lat2, lon2) ==
    LET from == <<lat1, lon1>>
        to == <<lat2, lon2>>
    IN  IF from = to THEN 0
        ELSE IF from = PosOffice THEN
            CASE to = PosZero -> 8663866
              [] to = PosNear -> 112
              [] to = PosFar -> 3212
        ELSE IF from = <<0, PosOffice[2]>> THEN
            CASE to = PosZero -> 8628126
              [] to = PosOffice -> 1442377
              [] to = PosNear -> 1442488
              [] to = PosFar -> 1445535
        ELSE IF from = <<PosOffice[1], 0>> THEN
            CASE to = PosZero -> 1442377
              [] to = PosOffice -> 8368822
              [] to = PosNear -> 8368802
              [] to = PosFar -> 8368837
        ELSE
            CASE from = PosZero /\ to = PosOffice -> 8663866
              [] from = PosZero /\ to = PosNear -> 8663871
              [] from = PosZero /\ to = PosFar -> 8664606

\* The condition without the test of the office coordinates.
geofence_evaluated_any_office(lat, lng) == lat # None /\ lng # None

\* main.py:148, the condition under which the geofence is evaluated.
geofence_evaluated(lat, lng) ==
    lat # None /\ lng # None /\ (OFFICE_LAT # 0 \/ OFFICE_LNG # 0)

\* The evaluation with a strict comparison against the radius.
evaluate_geofence_strict(lat, lng) ==
    IF geofence_evaluated(lat, lng)
    THEN LET distance == haversine_m(OFFICE_LAT, OFFICE_LNG, lat[1], lng[1])
         IN  <<Some(distance), IF distance < GEOFENCE_M THEN "present" ELSE "absent">>
    ELSE <<None, "absent">>

\* main.py:146-150: <<distance, status>> of a submitted position.
evaluate_geofence(lat, lng) ==
    IF geofence_evaluated(lat, lng)
    THEN LET distance == haversine_m(OFFICE_LAT, OFFICE_LNG, lat[1], lng[1])
         IN  <<Some(distance), IF distance <= GEOFENCE_M THEN "present" ELSE "absent">>
    ELSE <<None, "absent">>

\* ---------------------------------------------------------------- store

\* The identifier the store generates for the next inserted document: one
\* never given out before, in either collection.
new_oid == Len(employee) + Len(attendance) + 1

\* create_document(collection, data): data plus the generated _id and the
\* creation timestamp, appended to the collection.
create_document(coll, data, stamp) ==
    Append(coll, [field \in (DOMAIN data) \cup {"_id", "created_at"} |->
        IF field = "_id" THEN new_oid
        ELSE IF field = "created_at" THEN stamp
        ELSE data[field]])

\* A lookup by identifier that skips removed employees.
find_one_skipping_removed(oid) ==
    IF \E i \in 1..Len(employee) : employee[i]._id = oid /\ employee[i].is_active
    THEN Some(employee[CHOOSE i \in 1..Len(employee) :
                            employee[i]._id = oid /\ employee[i].is_active])
    ELSE None

\* coll.find_one({"_id": oid}) on employees: None or the document.
find_one(oid) ==
    IF \E i \in 1..Len(employee) : employee[i]._id = oid
    THEN Some(employee[CHOOSE i \in 1..Len(employee) : employee[i]._id = oid])
    ELSE None

\* A lookup of an active employee that leaves out the is_active condition.
find_one_active_unfiltered(oid) ==
    IF \E i \in 1..Len(employee) : employee[i]._id = oid
    THEN Some(employee[CHOOSE i \in 1..Len(employee) : employee[i]._id = oid])
    ELSE None

\* coll.find_one({"_id": oid, "is_active": True}).
find_one_active(oid) ==
    IF \E i \in 1..Len(employee) : employee[i]._id = oid /\ employee[i].is_active
    THEN Some(employee[CHOOSE i \in 1..Len(employee) :
                            employee[i]._id = oid /\ employee[i].is_active])
    ELSE None

\* coll.update_one({"_id": oid}, {"$set": {"is_active": False, "updated_at": stamp}}).
update_one(oid, stamp) ==
    [i \in 1..Len(employee) |->
        IF employee[i]._id = oid
        THEN [employee[i] EXCEPT !.is_active = FALSE, !.updated_at = Some(stamp)]
        ELSE employee[i]]

\* An update whose filter also asks for is_active: it matches no removed employee.
matched_count_active(oid) ==
    Cardinality({i \in 1..Len(employee) : employee[i]._id = oid /\ employee[i].is_active})

\* res.matched_count of that update_one.
matched_count(oid) == Cardinality({i \in 1..Len(employee) : employee[i]._id = oid})

\* ---------------------------------------------------------------- responses

Response(op, req, code, body) == [op |-> op, req |-> req, code |-> code, body |-> body]
\* The step sent nothing to a caller.
NoResponse == Response("none", <<>>, 0, <<>>)

\* HTTPException(status_code=code): the request ends, the store is as it was.
Raise(op, req, code) ==
    /\ resp' = Response(op, req, code, <<>>)
    /\ UNCHANGED <<employee, attendance, inflight, now>>

config == <<OFFICE_LAT, OFFICE_LNG, GEOFENCE_M>>

\* ---------------------------------------------------------------- employees

\* POST /employees
create_employee(payload) ==
    /\ now < MaxClock
    /\ now' = now + 1
    /\ employee' = create_document(employee,
            [name |-> payload.name, email |-> payload.email, role |-> payload.role,
             phone |-> payload.phone, is_active |-> TRUE, updated_at |-> None], now')
    /\ resp' = Response("create_employee", payload, 200,
            [id |-> str(new_oid), name |-> payload.name, email |-> payload.email,
             role |-> payload.role, phone |-> payload.phone, is_active |-> TRUE])
    /\ UNCHANGED <<config, attendance, inflight, today>>

EmployeeOut(d) ==
    [id |-> str(d._id), name |-> d.name, email |-> d.email, role |-> d.role,
     phone |-> d.phone, is_active |-> d.is_active]

\* main.py:99-103: the search term's part of the filter.
search_matches(d, q) ==
    ~Truthy(q) \/ RegexMatchI(d.name, q[1]) \/ RegexMatchI(d.email, q[1])

\* main.py:98-104: the documents list_employees reads, newest first (the
\* clock gives every document its own created_at, so that is the reverse of
\* the insertion order).
list_filter(q) ==
    LET matches(d) == d.is_active /\ search_matches(d, q)
    IN  Reverse(SelectSeq(employee, matches))

\* GET /employees
list_employees(q) ==
    /\ resp' = Response("list_employees", q, 200,
            LET docs == list_filter(q) IN [i \in 1..Len(docs) |-> EmployeeOut(docs[i])])
    /\ UNCHANGED <<config, employee, attendance, inflight, now, today>>

\* DELETE /employees/{employee_id}
remove_employee(employee_id) ==
    LET oid == ObjectId(employee_id) IN
    /\ UNCHANGED <<config, today>>
    /\ IF oid = InvalidId THEN Raise("remove_employee", employee_id, 400)
       ELSE IF matched_count(oid) = 0 THEN Raise("remove_employee", employee_id, 404)
       ELSE /\ now < MaxClock
            /\ now' = now + 1
            /\ employee' = update_one(oid, now')
            /\ resp' = Response("remove_employee", employee_id, 200, [status |-> "ok"])
            /\ UNCHANGED <<attendance, inflight>>

\* ---------------------------------------------------------------- attendance

\* main.py:142-159: the record mark_attendance builds for a payload.
att_data_of(payload) ==
    LET geo == evaluate_geofence(payload.lat, payload.lng)
    IN  [employee_id |-> payload.employee_id, date |-> isoformat(today),
         status |-> geo[2], lat |-> payload.lat, lng |-> payload.lng,
         distance_m |-> geo[1]]

\* The check with a malformed identifier reported as not found.
employee_check_not_found(payload) ==
    IF find_one_active(ObjectId(payload.employee_id)) = None THEN 404 ELSE 200

\* main.py:134-140: the status the employee check ends the request with, or
\* 200 when it lets the request go on.
employee_check(payload) ==
    LET oid == ObjectId(payload.employee_id)
    IN  IF oid = InvalidId THEN 400
        ELSE IF find_one_active(oid) = None THEN 404
        ELSE 200

AttendanceOut(d) ==
    [id |-> str(d._id), employee_id |-> d.employee_id, date |-> d.date,
     status |-> d.status, lat |-> d.lat, lng |-> d.lng, distance_m |-> d.distance_m]

\* An insert that replaces the record the employee already has on that date.
insert_attendance_upsert(att_data) ==
    LET same(d) == d.employee_id = att_data.employee_id /\ d.date = att_data.date
        other(d) == ~same(d)
    IN  /\ now < MaxClock
        /\ now' = now + 1
        /\ attendance' = create_document(SelectSeq(attendance, other), att_data, now')
        /\ resp' = Response("mark_attendance",
                [employee_id |-> att_data.employee_id, lat |-> att_data.lat,
                 lng |-> att_data.lng],
                200, AttendanceOut(attendance'[Len(attendance')]))
        /\ UNCHANGED employee

\* main.py:160-165: the insert and the response.
insert_attendance(att_data) ==
    /\ now < MaxClock
    /\ now' = now + 1
    /\ attendance' = create_document(attendance, att_data, now')
    /\ resp' = Response("mark_attendance",
            [employee_id |-> att_data.employee_id, lat |-> att_data.lat, lng |-> att_data.lng],
            200, AttendanceOut(attendance'[Len(attendance')]))
    /\ UNCHANGED employee

\* POST /attendance/mark, a request served with no other request in between.
mark_attendance(payload) ==
    /\ UNCHANGED <<config, today, inflight>>
    /\ IF employee_check(payload) # 200
       THEN Raise("mark_attendance", payload, employee_check(payload))
       ELSE insert_attendance(att_data_of(payload))

\* POST /attendance/mark up to the insert (main.py:131-159). The lookup and
\* the insert are two store calls, and the steps of other requests run
\* between them: inflight holds the records of the requests that are there.
mark_attendance_lookup(payload) ==
    /\ UNCHANGED <<config, today>>
    /\ IF employee_check(payload) # 200
       THEN Raise("mark_attendance", payload, employee_check(payload))
       ELSE /\ BagCardinality(inflight) < MaxInflight
            /\ inflight' = inflight (+) SetToBag({att_data_of(payload)})
            /\ resp' = NoResponse
            /\ UNCHANGED <<employee, attendance, now>>

\* POST /attendance/mark from the insert on (main.py:160-165).
mark_attendance_insert(att_data) ==
    /\ BagIn(att_data, inflight)
    /\ inflight' = inflight (-) SetToBag({att_data})
    /\ insert_attendance(att_data)
    /\ UNCHANGED <<config, today>>

\* GET /attendance/daily
attendance_daily(date_str) ==
    LET day == IF Truthy(date_str) THEN date_str[1] ELSE isoformat(today)
        on_day(d) == d.date = day
        docs == SelectSeq(attendance, on_day)
        entry(d) ==
            LET emp == find_one(ObjectId(d.employee_id))
            IN  [id |-> str(d._id), employee_id |-> d.employee_id,
                 employee_name |-> IF emp # None THEN Some(emp[1].name) ELSE None,
                 status |-> d.status, date |-> d.date, distance_m |-> d.distance_m]
    IN  /\ resp' = Response("attendance_daily", date_str, 200,
                [date |-> day, records |-> [i \in 1..Len(docs) |-> entry(docs[i])]])
        /\ UNCHANGED <<config, employee, attendance, inflight, now, today>>

\* The documents read with the end of the range left out of it.
summary_docs_end_exclusive(employee_id, start, end) ==
    LET matches(d) ==
            /\ d.employee_id = employee_id
            /\ (Truthy(start) /\ Truthy(end))
                    => (StrLeq(start[1], d.date) /\ StrLeq(d.date, end[1]) /\ d.date # end[1])
    IN  SelectSeq(attendance, matches)

\* main.py:191-194: the documents attendance_summary reads.
summary_docs(employee_id, start, end) ==
    LET matches(d) ==
            /\ d.employee_id = employee_id
            /\ (Truthy(start) /\ Truthy(end))
                    => (StrLeq(start[1], d.date) /\ StrLeq(d.date, end[1]))
    IN  SelectSeq(attendance, matches)

\* main.py:195-196
count_status(docs, status) == Cardinality({i \in 1..Len(docs) : docs[i].status = status})

\* The tallies with a counter set to one, not raised by one, by a document.
by_date_of_overwriting(docs) ==
    [k \in {docs[i].date : i \in 1..Len(docs)} |->
        [counter \in {"present", "absent"} |->
            IF \E i \in 1..Len(docs) : docs[i].date = k /\ docs[i].status = counter
            THEN 1 ELSE 0]]

\* main.py:197-200: the per-date tallies, a function from date to counters;
\* every document adds one to the counter of its status under its date.
by_date_of(docs) ==
    [k \in {docs[i].date : i \in 1..Len(docs)} |->
        [counter \in {"present", "absent"} |->
            Cardinality({i \in 1..Len(docs) : docs[i].date = k /\ docs[i].status = counter})]]

RECURSIVE sorted(_)
\* sorted() of a set of strings: ascending in the order of StrLeq.
sorted(keys) ==
    IF keys = {} THEN <<>>
    ELSE LET least == CHOOSE k \in keys : \A other \in keys : StrLeq(k, other)
         IN  <<least>> \o sorted(keys \ {least})

\* main.py:201: one entry per key of by_date, in the order of keys.
series_in(keys, by_date) ==
    [i \in 1..Len(keys) |->
        [date |-> keys[i], present |-> by_date[keys[i]].present,
         absent |-> by_date[keys[i]].absent]]

series_of(by_date) == series_in(sorted(DOMAIN by_date), by_date)

\* main.py:195-202: the summary of the documents read.
summary_of(docs) ==
    [present |-> count_status(docs, "present"),
     absent |-> count_status(docs, "absent"),
     series |-> series_of(by_date_of(docs))]

\* GET /attendance/summary/{employee_id}
attendance_summary(employee_id, start, end) ==
    /\ resp' = Response("attendance_summary",
            [employee_id |-> employee_id, start |-> start, end |-> end], 200,
            summary_of(summary_docs(employee_id, start, end)))
    /\ UNCHANGED <<config, employee, attendance, inflight, now, today>>

\* ---------------------------------------------------------------- environment

\* Midnight passes: date.today() moves on by a day.
NextDay ==
    /\ today.day < FirstDay.day + MaxDays
    /\ today' = [today EXCEPT !.day = @ + 1]
    /\ resp' = NoResponse
    /\ UNCHANGED <<config, employee, attendance, inflight, now>>

\* ---------------------------------------------------------------- inputs

Text_A == <<65>>
Text_B == <<66>>
Text_a == <<97>>
Text_dev == <<100, 101, 118>>
Email_a == <<97, 64, 120, 46, 99, 111, 109>>
Email_b == <<98, 64, 120, 46, 99, 111, 109>>

Employee_A == [name |-> Text_A, email |-> Email_a, role |-> None, phone |-> None]
Employee_B == [name |-> Text_B, email |-> Email_b, role |-> Some(Text_dev), phone |-> None]

\* Identifier strings of requests: well formed in either letter case, of a
\* value the store has or has not given out, and a malformed one.
IdInputs == {IdStr("lower", 1), IdStr("upper", 1), IdStr("lower", 2), MalformedId}

OptPos(pos) == <<Some(pos[1]), Some(pos[2])>>
NoPos == <<None, None>>
\* <<lat, lng>> of a mark request: both, one or none of the two supplied.
PositionInputs ==
    {NoPos, <<Some(PosOffice[1]), None>>, <<None, Some(PosOffice[2])>>,
     OptPos(PosOffice), OptPos(PosNear), OptPos(PosFar), OptPos(PosZero)}

MarkPayloads(ids, positions) ==
    {[employee_id |-> id, lat |-> pos[1], lng |-> pos[2]] : id \in ids, pos \in positions}

SearchInputs == {None, Some(Text_a)}

\* "2024-01-1": a date that is not zero padded.
Text_unpadded == SubSeq(isoformat(FirstDay), 1, 8) \o <<Digit(1)>>
DateInputs == {None, Some(<<>>), Some(Text_unpadded)} \cup {Some(isoformat(d)) : d \in Days}
\* <<start, end>> of a summary request: none, one or both supplied, an empty
\* string, a start that is not zero padded, an empty range, every range of days.
RangeInputs ==
    {<<None, None>>, <<Some(isoformat(FirstDay)), None>>,
     <<Some(<<>>), Some(isoformat(FirstDay))>>,
     <<Some(Text_unpadded), Some(isoformat([FirstDay EXCEPT !.day = @ + 1]))>>}
    \cup {<<Some(isoformat(r[1])), Some(isoformat(r[2]))>> :
            r \in {p \in Days \X Days : p[2].day >= p[1].day \/ p[2] = FirstDay}}

\* <<OFFICE_LAT, OFFICE_LNG, GEOFENCE_M>>: the office unset (the default), set
\* in one coordinate, set in both; the default radius and a radius of zero.
ConfigInputs ==
    {<<lat, lng, r>> : lat \in {0, PosOffice[1]}, lng \in {0, PosOffice[2]}, r \in {0, 200}}
ConfigDefault == <<0, 0, 200>>
ConfigOffice == <<PosOffice[1], PosOffice[2], 200>>

\* ---------------------------------------------------------------- specifications

InitWith(configs) ==
    /\ \E c \in configs : OFFICE_LAT = c[1] /\ OFFICE_LNG = c[2] /\ GEOFENCE_M = c[3]
    /\ employee = <<>>
    /\ attendance = <<>>
    /\ inflight = EmptyBag
    /\ now = 0
    /\ today = FirstDay
    /\ resp = NoResponse

\* Employees and attendance, one request at a time.
Init == InitWith({ConfigDefault})

Next ==
    \/ \E payload \in {Employee_A, Employee_B} : create_employee(payload)
    \/ \E q \in SearchInputs : list_employees(q)
    \/ \E id \in IdInputs : remove_employee(id)
    \/ \E payload \in MarkPayloads(IdInputs, {NoPos}) : mark_attendance(payload)
    \/ \E date_str \in DateInputs : attendance_daily(date_str)
    \/ NextDay

Spec == Init /\ [][Next]_vars

\* The geofence: every office configuration, every kind of position.
InitGeo == InitWith(ConfigInputs)

NextGeo ==
    \/ create_employee(Employee_A)
    \/ \E payload \in MarkPayloads({IdStr("lower", 1)}, PositionInputs) : mark_attendance(payload)

SpecGeo == InitGeo /\ [][NextGeo]_vars

\* One employee registered, the office set.
InitRegistered ==
    /\ OFFICE_LAT = ConfigOffice[1] /\ OFFICE_LNG = ConfigOffice[2] /\ GEOFENCE_M = ConfigOffice[3]
    /\ employee = <<[_id |-> 1, name |-> Text_A, email |-> Email_a, role |-> None,
                     phone |-> None, is_active |-> TRUE, created_at |-> 1,
                     updated_at |-> None]>>
    /\ attendance = <<>>
    /\ inflight = EmptyBag
    /\ now = 1
    /\ today = FirstDay
    /\ resp = Response("create_employee", Employee_A, 200,
            [id |-> str(1), name |-> Text_A, email |-> Email_a, role |-> None,
             phone |-> None, is_active |-> TRUE])

\* The summary: records of two identifier strings, present and absent, on
\* several dates, of an employee who is registered and may be removed.
InitSummary == InitRegistered

SummaryIds == {IdStr("lower", 1), IdStr("upper", 1)}
SummaryMarks ==
    MarkPayloads({IdStr("lower", 1)}, {OptPos(PosOffice), OptPos(PosFar)})
    \cup MarkPayloads({IdStr("upper", 1)}, {OptPos(PosOffice)})

NextSummary ==
    \/ remove_employee(IdStr("lower", 1))
    \/ \E payload \in SummaryMarks : mark_attendance(payload)
    \/ \E id \in SummaryIds, range \in RangeInputs :
            attendance_summary(id, range[1], range[2])
    \/ NextDay

SpecSummary == InitSummary /\ [][NextSummary]_vars

\* Requests of several callers at once: mark_attendance in its two store calls.
InitConcurrent == InitWith({ConfigDefault})

NextConcurrent ==
    \/ create_employee(Employee_A)
    \/ \E id \in {IdStr("lower", 1), IdStr("lower", 2)} : remove_employee(id)
    \/ \E payload \in MarkPayloads({IdStr("lower", 1), IdStr("lower", 2), MalformedId}, {NoPos}) :
            mark_attendance_lookup(payload)
    \/ \E att_data \in BagToSet(inflight) : mark_attendance_insert(att_data)
    \/ NextDay

SpecConcurrent == InitConcurrent /\ [][NextConcurrent]_vars

\* ---------------------------------------------------------------- claims

employee_ids == {employee[i]._id : i \in 1..Len(employee)}
removed_ids == {employee[i]._id : i \in {j \in 1..Len(employee) : ~employee[j].is_active}}
active_ids == employee_ids \ removed_ids
IsPrefix(s, t) == Len(s) <= Len(t) /\ SubSeq(t, 1, Len(s)) = s

\* C1: once an employee is removed, every later step leaves the employee
\* removed, no listing returned holds the employee, and every mark request
\* for the employee's identifier (in either letter case) ends with 404 and
\* stores nothing.
C1_RemovedStaysRemoved ==
    [][\A oid \in removed_ids :
        /\ oid \in {employee'[i]._id : i \in {j \in 1..Len(employee') : ~employee'[j].is_active}}
        /\ resp'.op = "list_employees"
            => \A i \in 1..Len(resp'.body) : ObjectId(resp'.body[i].id) # oid
        /\ (resp'.op = "mark_attendance" /\ ObjectId(resp'.req.employee_id) = oid)
            => (resp'.code = 404 /\ attendance' = attendance)]_vars

\* C1: a mark request for a removed employee, written in upper case, got 404
\* while another employee is still active.
C1_Witness ==
    /\ resp.op = "mark_attendance"
    /\ resp.code = 404
    /\ resp.req.employee_id.form = "upper"
    /\ ObjectId(resp.req.employee_id) \in removed_ids
    /\ active_ids # {}

\* C2: with both office coordinates zero every stored record is absent with
\* no distance, whatever position was submitted; with a non-zero office
\* coordinate every record that has both lat and lng has the distance from
\* the office to that position.
C2_UnsetOfficeDisablesGeofence ==
    \A i \in 1..Len(attendance) :
        LET d == attendance[i] IN
        IF OFFICE_LAT = 0 /\ OFFICE_LNG = 0
        THEN d.status = "absent" /\ d.distance_m = None
        ELSE (d.lat # None /\ d.lng # None)
                => d.distance_m = Some(haversine_m(OFFICE_LAT, OFFICE_LNG, d.lat[1], d.lng[1]))

\* C2: the office is unset and a record was stored for a request that
\* submitted the position (0, 0), at distance zero from the unset office.
C2_Witness ==
    /\ OFFICE_LAT = 0 /\ OFFICE_LNG = 0
    /\ \E i \in 1..Len(attendance) :
        attendance[i].lat = Some(0) /\ attendance[i].lng = Some(0)

office_configured == OFFICE_LAT # 0 \/ OFFICE_LNG # 0

\* C3: of every stored record, the status is present or absent; it is
\* present exactly when the distance is defined and at most the radius; the
\* distance is defined exactly when the request gave both lat and lng and the
\* office is configured.
C3_StatusFollowsDistance ==
    \A i \in 1..Len(attendance) :
        LET d == attendance[i] IN
        /\ d.status \in {"present", "absent"}
        /\ d.status = "present" <=> (d.distance_m # None /\ d.distance_m[1] <= GEOFENCE_M)
        /\ d.distance_m # None <=> (d.lat # None /\ d.lng # None /\ office_configured)

\* C3: a stored record whose distance equals the radius, and is present.
C3_Witness ==
    \E i \in 1..Len(attendance) :
        attendance[i].distance_m = Some(GEOFENCE_M) /\ attendance[i].status = "present"

\* C4: a mark request with a malformed identifier ends with 400, one whose
\* identifier matches no active employee with 404, both with the store as it
\* was; every other mark request ends with 200 and appends exactly one
\* record, with the requested identifier and today's date.
C4_MarkFailuresStoreNothing ==
    [][resp'.op = "mark_attendance" =>
        LET id == resp'.req.employee_id IN
        /\ ObjectId(id) = InvalidId <=> resp'.code = 400
        /\ (ObjectId(id) # InvalidId /\ ObjectId(id) \notin active_ids) <=> resp'.code = 404
        /\ resp'.code \in {400, 404} => (attendance' = attendance /\ employee' = employee)
        /\ resp'.code \notin {400, 404} =>
            /\ resp'.code = 200
            /\ employee' = employee
            /\ Len(attendance') = Len(attendance) + 1
            /\ IsPrefix(attendance, attendance')
            /\ attendance'[Len(attendance')].employee_id = id
            /\ attendance'[Len(attendance')].date = isoformat(today)
            /\ resp'.body.employee_id = id
            /\ resp'.body.date = isoformat(today)]_vars

\* C4: a mark request got 404 for a well-formed identifier that the store
\* gave to an attendance record, not to an employee.
C4_Witness ==
    /\ resp.op = "mark_attendance"
    /\ resp.code = 404
    /\ ObjectId(resp.req.employee_id) \in {attendance[i]._id : i \in 1..Len(attendance)}

\* An employee document with the fields a removal may change left out.
Kept(d) == [field \in (DOMAIN d) \ {"is_active", "updated_at"} |-> d[field]]

\* C5: a remove request with a malformed identifier ends with 400, one
\* whose identifier matches no employee document with 404, both with the
\* store as it was; every other one (also for an employee already removed)
\* ends with status ok, leaves that employee inactive, and changes nothing
\* else but the update timestamp: no other employee, no attendance record,
\* and no document is deleted.
C5_RemoveIsSoftDelete ==
    [][resp'.op = "remove_employee" =>
        LET oid == ObjectId(resp'.req) IN
        /\ oid = InvalidId <=> resp'.code = 400
        /\ (oid # InvalidId /\ oid \notin employee_ids) <=> resp'.code = 404
        /\ resp'.code \in {400, 404} => (attendance' = attendance /\ employee' = employee)
        /\ resp'.code \notin {400, 404} =>
            /\ resp'.code = 200
            /\ resp'.body = [status |-> "ok"]
            /\ attendance' = attendance
            /\ Len(employee') = Len(employee)
            /\ \A i \in 1..Len(employee) :
                IF employee[i]._id = oid
                THEN ~employee'[i].is_active /\ Kept(employee'[i]) = Kept(employee[i])
                ELSE employee'[i] = employee[i]]_vars

\* C5: the only employee was removed twice (more writes than one insert and
\* one update), the second removal answered ok, and the document is there.
C5_Witness ==
    /\ resp.op = "remove_employee"
    /\ resp.code = 200
    /\ Len(employee) = 1
    /\ Len(attendance) = 0
    /\ now >= 3
    /\ ~employee[1].is_active

RECURSIVE SumOf(_, _)
\* The sum of the field of the entries of a series.
SumOf(series, field) ==
    IF series = <<>> THEN 0 ELSE Head(series)[field] + SumOf(Tail(series), field)

\* C6: of every summary returned, the series has one entry per distinct
\* date of the counted records, in strictly ascending order of date; the
\* present total is the sum of the entries' present tallies, the absent
\* total the sum of their absent tallies, and the two totals add up to the
\* number of counted records.
C6_SeriesAndTotalsAgree ==
    resp.op = "attendance_summary" =>
        LET docs == summary_docs(resp.req.employee_id, resp.req.start, resp.req.end)
            series == resp.body.series
        IN  /\ {series[i].date : i \in 1..Len(series)} = {docs[i].date : i \in 1..Len(docs)}
            /\ \A i \in 1..Len(series), j \in 1..Len(series) :
                i < j => (series[i].date # series[j].date
                            /\ StrLeq(series[i].date, series[j].date))
            /\ resp.body.present = SumOf(series, "present")
            /\ resp.body.absent = SumOf(series, "absent")
            /\ resp.body.present + resp.body.absent = Len(docs)

\* C6: a summary returned with a series of two dates, one of them with two
\* records, and with records of both statuses.
C6_Witness ==
    /\ resp.op = "attendance_summary"
    /\ Len(resp.body.series) >= 2
    /\ \E i \in 1..Len(resp.body.series) :
        resp.body.series[i].present + resp.body.series[i].absent >= 2
    /\ resp.body.present >= 1
    /\ resp.body.absent >= 1

\* The summary an identifier and a filter on dates call for.
ExpectedSummary(employee_id, in_range(_)) ==
    LET counted(d) == d.employee_id = employee_id /\ in_range(d.date)
    IN  summary_of(SelectSeq(attendance, counted))

\* C7 as stated: the summary counts the records of the requested identifier
\* string, those with start <= date <= end when start and end are both
\* supplied, all of them otherwise; it never fails.
C7_AsStated ==
    resp.op = "attendance_summary" =>
        LET start == resp.req.start
            end == resp.req.end
            in_range(date) ==
                (start # None /\ end # None) => (StrLeq(start[1], date) /\ StrLeq(date, end[1]))
        IN  resp.code = 200 /\ resp.body = ExpectedSummary(resp.req.employee_id, in_range)

\* C7 as amended: the summary counts the records of the requested identifier
\* string, those with start <= date <= end (in the order of strings) when
\* start and end are both supplied and neither is the empty string, all of
\* them otherwise; it never fails.
C7_RangeAppliesWhenBothNonEmpty ==
    resp.op = "attendance_summary" =>
        LET start == resp.req.start
            end == resp.req.end
            in_range(date) ==
                (start # None /\ end # None /\ start[1] # <<>> /\ end[1] # <<>>)
                    => (StrLeq(start[1], date) /\ StrLeq(date, end[1]))
        IN  resp.code = 200 /\ resp.body = ExpectedSummary(resp.req.employee_id, in_range)

\* C7: a summary returned for a range of one day, when the requested
\* identifier has a record on that day and one outside the range, and there
\* is a record of another identifier string.
C7_Witness ==
    /\ resp.op = "attendance_summary"
    /\ Truthy(resp.req.start)
    /\ resp.req.start = resp.req.end
    /\ \E i \in 1..Len(attendance), j \in 1..Len(attendance), k \in 1..Len(attendance) :
        /\ attendance[i].employee_id = resp.req.employee_id
        /\ attendance[i].date = resp.req.end[1]
        /\ attendance[j].employee_id = resp.req.employee_id
        /\ attendance[j].date # resp.req.end[1]
        /\ attendance[k].employee_id # resp.req.employee_id

attendance_ids == {attendance[i]._id : i \in 1..Len(attendance)}

\* The roster an employee-name rule calls for: every stored record of the
\* day once, none else.
RosterHolds(name_of(_)) ==
    LET day == IF Truthy(resp.req) THEN resp.req[1] ELSE isoformat(today)
        records == resp.body.records
    IN  /\ resp.code = 200
        /\ resp.body.date = day
        /\ {ObjectId(records[i].id) : i \in 1..Len(records)}
                = {attendance[i]._id : i \in {j \in 1..Len(attendance) : attendance[j].date = day}}
        /\ \A i \in 1..Len(records), j \in 1..Len(records) :
                i # j => records[i].id # records[j].id
        /\ \A i \in 1..Len(records) :
                records[i].employee_name = name_of(ObjectId(records[i].employee_id))

name_in_store(oid) == employee[CHOOSE i \in 1..Len(employee) : employee[i]._id = oid].name

\* C8 as stated: in every roster returned, every stored record of the date
\* appears once, with the employee's name when the employee exists, and
\* null when the employee has been removed or is missing.
C8_AsStated ==
    resp.op = "attendance_daily" =>
        LET name_of(oid) == IF oid \in active_ids THEN Some(name_in_store(oid)) ELSE None
        IN  RosterHolds(name_of)

\* C8 as amended: in every roster returned, every stored record of the date
\* appears once, with the employee's name when the employee's document
\* exists, removed or not, and null only when no document has the identifier.
C8_RosterNamesRemovedEmployees ==
    resp.op = "attendance_daily" =>
        LET name_of(oid) == IF oid \in employee_ids THEN Some(name_in_store(oid)) ELSE None
        IN  RosterHolds(name_of)

\* C8: a roster returned with a record of an employee removed since, while
\* an employee of another name is registered.
C8_Witness ==
    /\ resp.op = "attendance_daily"
    /\ \E i \in 1..Len(resp.body.records), k \in 1..Len(employee) :
        /\ ObjectId(resp.body.records[i].employee_id) \in removed_ids
        /\ employee[k]._id # ObjectId(resp.body.records[i].employee_id)
        /\ employee[k].name # name_in_store(ObjectId(resp.body.records[i].employee_id))

\* C9: every insert step of a mark request ends with 200 and appends one
\* record, whose identifier no stored document has, to the records as they
\* were; no other step changes the stored attendance records.
C9_EveryMarkPersistsItsOwnRecord ==
    [][IF BagCardinality(inflight') < BagCardinality(inflight)
       THEN /\ resp'.op = "mark_attendance"
            /\ resp'.code = 200
            /\ Len(attendance') = Len(attendance) + 1
            /\ IsPrefix(attendance, attendance')
            /\ attendance'[Len(attendance')]._id \notin attendance_ids \cup employee_ids
            /\ resp'.body.id = str(attendance'[Len(attendance')]._id)
            /\ \E att_data \in BagToSet(inflight) :
                /\ inflight' = inflight (-) SetToBag({att_data})
                /\ AttendanceOut(attendance'[Len(attendance')])
                    = [id |-> resp'.body.id, employee_id |-> att_data.employee_id,
                       date |-> att_data.date, status |-> att_data.status,
                       lat |-> att_data.lat, lng |-> att_data.lng,
                       distance_m |-> att_data.distance_m]
       ELSE attendance' = attendance]_vars

\* C9: two records of the same employee and date are stored, both inserted
\* after the employee was removed: both requests had passed the employee
\* check, and were in flight together, when the removal came.
C9_Witness ==
    \E i \in 1..Len(attendance), j \in 1..Len(attendance), k \in 1..Len(employee) :
        /\ i # j
        /\ attendance[i]._id # attendance[j]._id
        /\ attendance[i].employee_id = attendance[j].employee_id
        /\ attendance[i].date = attendance[j].date
        /\ ObjectId(attendance[i].employee_id) = employee[k]._id
        /\ employee[k].updated_at # None
        /\ attendance[i].created_at > employee[k].updated_at[1]
        /\ attendance[j].created_at > employee[k].updated_at[1]

\* C10: no step stores an attendance record for an employee who is inactive
\* when the step is taken.
C10_NoRecordForInactiveEmployee ==
    [][Len(attendance') > Len(attendance)
        => ObjectId(attendance'[Len(attendance')].employee_id) \in active_ids]_vars

====
